---- MODULE Spec2Model ----
(***************************************************************************)
(* Model of the career advisor application (app.py): the role catalog,     *)
(* the skill extractor, the resume analyser, the course finder and the     *)
(* career-path recommender.                                                *)
(*                                                                         *)
(* Strings are sequences of one-character strings, so that case folding,   *)
(* substring search and the regular expression of extract_skills are       *)
(* computed character by character.                                        *)
(***************************************************************************)
EXTENDS Integers, Sequences, FiniteSets, TLC

VARIABLES
    career_data,        \* the global catalog: the list data['career_roles']
    text,               \* extract_skills: the resume text
    resume_skills,      \* the extracted skills (only membership is ever read)
    target_role,        \* analyze_resume: the requested role name
    experience_level,   \* career_path: the requested experience level
    skill,              \* find_courses: the skill name looked up
    recommended_roles,  \* career_path: the local list before [:5], as indices
    response,           \* what the handler returned
    pc,                 \* position of the request
    storage,            \* the content of data/career_data.json
    file,               \* upload_resume: the uploaded file of the request
    log,                \* the messages written with logger.error
    threads,            \* the requests served by other threads, each with
                        \* its position in get_career_data and its locals
    frame,              \* the upload request's own call of get_career_data
    snapshots           \* the values get_career_data returned to the upload
                        \* request: the local 'data' of lines 390, 412, 476

\* The variables of the threads.
thread_vars == <<threads, frame, snapshots>>

\* The variables of loading and uploading.
server_vars == <<storage, file, log, thread_vars>>

vars == <<career_data, text, resume_skills, target_role, experience_level,
          skill, recommended_roles, response, pc, server_vars>>

(***************************************************************************)
(* Bounds of the model.                                                    *)
(***************************************************************************)
MaxTextLen == 4
MaxSkillLen == 2

(***************************************************************************)
(* Characters and strings.                                                 *)
(***************************************************************************)
Uppers == <<"C", "N", "P", "S", "D", "Y">>
Lowers == <<"c", "n", "p", "s", "d", "y">>
Digits == <<"0", "1", "2", "3", "4", "5", "6", "7", "8", "9">>

\* The characters the regular expression class \w accepts.
WordChars ==
    {Uppers[i] : i \in 1..Len(Uppers)} \cup {Lowers[i] : i \in 1..Len(Lowers)}
    \cup {Digits[i] : i \in 1..Len(Digits)}
    \cup {"a", "e", "g", "j", "k", "o", "q", "w", "x", "_"}

\* str.lower() on one character.
lower_char(c) ==
    IF \E i \in 1..Len(Uppers) : Uppers[i] = c
    THEN Lowers[CHOOSE i \in 1..Len(Uppers) : Uppers[i] = c]
    ELSE c

\* str.lower().
lower(s) == [i \in 1..Len(s) |-> lower_char(s[i])]

\* Python's  a in b  on strings: a occurs in b as a contiguous substring.
str_contains(a, b) ==
    \E i \in 1..(Len(b) - Len(a) + 1) :
        \A k \in 1..Len(a) : b[i + k - 1] = a[k]

\* All strings over alphabet A of length lo..hi.
StringsOver(A, lo, hi) == UNION {[1..n -> A] : n \in lo..hi}

(***************************************************************************)
(* The regular expression of extract_skills.  A pattern is a sequence of   *)
(* tokens: the assertion \b and literal characters.                        *)
(***************************************************************************)
WordBoundary == [kind |-> "b"]
Literal(c) == [kind |-> "lit", ch |-> c]

\* re.escape: every character of the skill becomes a literal.
re_escape(s) == [i \in 1..Len(s) |-> Literal(s[i])]

\* r'\b' + re.escape(skill) + r'\b'
skill_pattern(s) == <<WordBoundary>> \o re_escape(s) \o <<WordBoundary>>

is_word_at(t, p) == p >= 1 /\ p <= Len(t) /\ t[p] \in WordChars

\* \b at position p: between t[p-1] and t[p], exactly one is a word character.
at_boundary(t, p) == is_word_at(t, p - 1) # is_word_at(t, p)

\* The pattern from token j on matches t from position p on (re.IGNORECASE).
RECURSIVE re_match_from(_, _, _, _)
re_match_from(pat, j, t, p) ==
    IF j > Len(pat) THEN TRUE
    ELSE IF pat[j].kind = "b"
         THEN at_boundary(t, p) /\ re_match_from(pat, j + 1, t, p)
         ELSE /\ p <= Len(t)
              /\ lower_char(t[p]) = lower_char(pat[j].ch)
              /\ re_match_from(pat, j + 1, t, p + 1)

\* re.search(pattern, text, re.IGNORECASE) found a match.
re_search(pat, t) == \E p \in 1..(Len(t) + 1) : re_match_from(pat, 1, t, p)

(***************************************************************************)
(* The catalog.                                                            *)
(***************************************************************************)
SeqToSet(s) == {s[i] : i \in 1..Len(s)}

\* Python's None: the value of career_data while nothing is loaded (lines 28
\* and 169), and a null of the stored file.  It is no sequence, so it is
\* neither a string nor a list.
None == [i \in {0} |-> "None"]

\* isinstance(v, str), for a value that is a string or None.
is_str(v) == v # None

\* The vocabulary extract_skills collects from every role.
all_skills(data) ==
    UNION {SeqToSet(data[r].required_skills) \cup SeqToSet(data[r].preferred_skills)
           : r \in 1..Len(data)}

\* Lines 390-403 raise when get_career_data() returned None (line 394) or
\* when an entry of the vocabulary is no string (re.escape, line 400).
extract_skills_raises(data) ==
    \/ data = None
    \/ \E s \in all_skills(data) : ~is_str(s)

\* Line 406: what the except clause logs.
extract_skills_log(data) ==
    IF extract_skills_raises(data) THEN {"Error extracting skills"} ELSE {}

\* extract_skills(text): the vocabulary entries the pattern finds, and the
\* empty list of line 407 when the search raised.
extract_skills(t, data) ==
    IF extract_skills_raises(data) THEN {}
    ELSE {s \in all_skills(data) : re_search(skill_pattern(s), t)}

Role(name, req, pref, demand, courses, levels) ==
    [role |-> name, required_skills |-> req, preferred_skills |-> pref,
     demand_index |-> demand, recommended_courses |-> courses,
     experience_level |-> levels]

Course(t, p) == [title |-> t, platform |-> p]

NoResponse == [status |-> 0]

(***************************************************************************)
(* The loader.  The stored file is described by what the loader tests: how *)
(* far reading it gets (kind) and, when it holds a list under the key      *)
(* career_roles, the items of that list.  A stored object is a record      *)
(* whose DOMAIN is the set of its keys; an item that is not an object is   *)
(* the record JsonScalar.                                                  *)
(***************************************************************************)
\* Lines 64-65.
required_fields ==
    {"role", "category", "required_skills", "preferred_skills",
     "average_salary", "growth_trend", "recommended_courses"}

JsonScalar == [scalar |-> "null"]

\* Line 69: isinstance(role, dict)
is_dict(role) == "scalar" \notin DOMAIN role

\* A validation that asks only for the key 'role'.
missing_fields_role_only(role) == {field \in {"role"} : field \notin DOMAIN role}

\* Line 73.
missing_fields(role) == {field \in required_fields : field \notin DOMAIN role}

\* Lines 67-78: the roles the loop appends, in stored order.
valid_roles(roles) ==
    SelectSeq(roles, LAMBDA role : is_dict(role) /\ missing_fields(role) = {})

\* A role object with the seven fields.
StoredRole(name, category, req, pref, salary, demand, courses) ==
    [role |-> name, category |-> category, required_skills |-> req,
     preferred_skills |-> pref, average_salary |-> salary,
     growth_trend |-> [years |-> <<2020, 2021, 2022, 2023, 2024>>,
                       demand_index |-> demand],
     recommended_courses |-> courses]

Salary(e, m, s, l) == [entry |-> e, mid |-> m, senior |-> s, lead |-> l]

DefaultSeRequired ==
    <<<<"P", "y", "t", "h", "o", "n">>,
      <<"J", "a", "v", "a", "S", "c", "r", "i", "p", "t">>,
      <<"G", "i", "t">>,
      <<"S", "Q", "L">>>>
DefaultSePreferred ==
    <<<<"R", "e", "a", "c", "t">>,
      <<"N", "o", "d", "e", ".", "j", "s">>,
      <<"D", "o", "c", "k", "e", "r">>,
      <<"A", "W", "S">>>>
DefaultDsRequired ==
    <<<<"P", "y", "t", "h", "o", "n">>,
      <<"S", "t", "a", "t", "i", "s", "t", "i", "c", "s">>,
      <<"M", "a", "c", "h", "i", "n", "e", " ", "L", "e", "a", "r", "n", "i", "n", "g">>,
      <<"S", "Q", "L">>>>
DefaultDsPreferred ==
    <<<<"R">>,
      <<"T", "e", "n", "s", "o", "r", "F", "l", "o", "w">>,
      <<"T", "a", "b", "l", "e", "a", "u">>,
      <<"A", "W", "S">>>>
DefaultSeName ==
    <<"S", "o", "f", "t", "w", "a", "r", "e", " ", "E", "n", "g", "i", "n",
    "e", "e", "r">>
DefaultDsName ==
    <<"D", "a", "t", "a", " ", "S", "c", "i", "e", "n", "t", "i", "s", "t">>
DefaultSeTitle ==
    <<"C", "o", "m", "p", "l", "e", "t", "e", " ", "P", "y", "t", "h", "o",
    "n", " ", "B", "o", "o", "t", "c", "a", "m", "p">>
DefaultDsTitle ==
    <<"D", "a", "t", "a", " ", "S", "c", "i", "e", "n", "c", "e", " ", "S",
    "p", "e", "c", "i", "a", "l", "i", "z", "a", "t", "i", "o", "n">>

\* Lines 93-157: the built-in catalog of two roles.
create_default_career_data ==
    <<StoredRole(DefaultSeName, "Technology", DefaultSeRequired,
                 DefaultSePreferred, Salary(75000, 110000, 150000, 200000),
                 <<85, 90, 95, 100, 105>>,
                 <<Course(DefaultSeTitle, "Udemy")>>),
      StoredRole(DefaultDsName, "Data & Analytics", DefaultDsRequired,
                 DefaultDsPreferred, Salary(80000, 120000, 160000, 220000),
                 <<80, 85, 92, 98, 103>>,
                 <<Course(DefaultDsTitle, "Coursera")>>)>>

\* Lines 31-90: load_career_data() as a function of the stored file; the
\* result is the list data['career_roles'] of the returned dictionary.
load_career_data(st) ==
    IF st.kind = "missing" THEN create_default_career_data            \* 37-39
    ELSE IF st.kind = "unreadable" THEN create_default_career_data    \* 42-44
    ELSE IF st.kind = "malformed" THEN create_default_career_data     \* 47-48, 88-90
    ELSE IF st.kind \in {"not_a_dict", "no_career_roles"}
         THEN create_default_career_data                              \* 51-53
    ELSE IF st.kind = "not_a_list" THEN create_default_career_data    \* 55-57
    ELSE IF Len(st.career_roles) = 0 THEN create_default_career_data  \* 59-61
    ELSE IF valid_roles(st.career_roles) = <<>>
         THEN create_default_career_data                              \* 80-82
    ELSE valid_roles(st.career_roles)                                 \* 84-86

\* Lines 159-164: get_career_data() when no other thread runs: the value it
\* returns, which is also the value it leaves in career_data.
get_career_data ==
    IF career_data = None THEN load_career_data(storage) ELSE career_data

\* Lines 166-170: reload_career_data() when no other thread runs.
reload_career_data == load_career_data(storage)

\* The stored file with a list under career_roles, and the other files.
StoredList(roles) == [kind |-> "career_roles", career_roles |-> roles]
StoredOther(kind) == [kind |-> kind, career_roles |-> <<>>]

(***************************************************************************)
(* Threads.  A thread inside get_career_data or reload_career_data is at   *)
(* one of the accesses to the global career_data or to the stored file;    *)
(* between two accesses any other thread may run.                          *)
(***************************************************************************)
NThreads == 2

Threads == 1..NThreads

\* A call of get_career_data: the position in it, the value load_career_data
\* returned before it is assigned, and the value returned to the caller.
Frame(op, position, loaded, data, status) ==
    [op |-> op, pc |-> position, loaded |-> loaded, data |-> data,
     status |-> status]

Idle == Frame("none", "idle", None, None, 0)

InitThreads ==
    /\ threads = [t \in Threads |-> Idle]
    /\ frame = Idle
    /\ snapshots = <<>>

\* The positions inside reload_career_data and get_career_data.
in_call(f) == f.pc \in {"clear", "check", "load", "store", "return"}

\* One step of a call, on the caller's locals.
step_frame(f) ==
    CASE f.pc = "clear" -> [f EXCEPT !.pc = "check"]                 \* 169
      [] f.pc = "check" ->                                           \* 162
            [f EXCEPT !.pc = IF career_data = None THEN "load" ELSE "return"]
      [] f.pc = "load" ->                                            \* 163
            [f EXCEPT !.loaded = load_career_data(storage), !.pc = "store"]
      [] f.pc = "store" -> [f EXCEPT !.loaded = None, !.pc = "return"]  \* 163
      [] f.pc = "return" ->                                          \* 164
            [f EXCEPT !.data = career_data, !.pc = "returned"]

\* The same step, on the global: line 169 clears it, line 163 assigns it.
step_career_data(f) ==
    CASE f.pc = "clear" -> None
      [] f.pc = "store" -> f.loaded
      [] OTHER -> career_data

\* request.files and the PDF behind it: whether the request has the part
\* 'resume', its file name, and whether pdfplumber can read it.
Upload(present, filename, readable) ==
    [present |-> present, filename |-> filename, readable |-> readable]

\* Requests that never read the stored file leave it as it is, absent; they
\* upload nothing and nothing is logged yet.
InitServer ==
    /\ storage = StoredOther("missing")
    /\ file = Upload(FALSE, <<>>, FALSE)
    /\ log = {}
    /\ InitThreads

(***************************************************************************)
(* IEEE-754 binary64 arithmetic, as far as line 440 uses it:               *)
(*     int((len(matched_skills) / total_skills) * 100)                     *)
(* A positive double is [sig, exp].  Its 53-bit significand is kept in     *)
(* five limbs sig = <<s0, s1, s2, s3, s4>>: s0 = 1 is the leading bit and  *)
(* s1..s4 are the 52 fraction bits, 13 bits each, so that                  *)
(*     S = s0*2^52 + s1*2^39 + s2*2^26 + s3*2^13 + s4                      *)
(* and the value is S * 2^(exp - 52).  Zero is FloatZero.  Every operation *)
(* rounds to nearest, ties to even, as the hardware does.                  *)
(***************************************************************************)
LimbBits == 13
LimbBase == 8192

FloatZero == [sig |-> <<>>, exp |-> 0]

RECURSIVE pow2(_)
pow2(k) == IF k = 0 THEN 1 ELSE 2 * pow2(k - 1)

\* The least k with m * 2^k >= t.
RECURSIVE shift_to_reach(_, _, _)
shift_to_reach(m, t, k) ==
    IF m >= t THEN k ELSE shift_to_reach(2 * m, t, k + 1)

\* The significand plus one unit in the last place; a carry out of the
\* leading bit gives the next power of two.
float_round_up(sig, e) ==
    LET v4 == sig[5] + 1
        v3 == sig[4] + (v4 \div LimbBase)
        v2 == sig[3] + (v3 \div LimbBase)
        v1 == sig[2] + (v2 \div LimbBase)
        v0 == sig[1] + (v1 \div LimbBase)
    IN  IF v0 = 2
        THEN [sig |-> <<1, 0, 0, 0, 0>>, exp |-> e + 1]
        ELSE [sig |-> <<v0, v1 % LimbBase, v2 % LimbBase, v3 % LimbBase,
                        v4 % LimbBase>>,
              exp |-> e]

\* m / t on integers 0 <= m <= t, 0 < t < 2^17 (Python's true division of
\* two ints is correctly rounded): long division, one limb at a time.
float_div(m, t) ==
    IF m = 0 THEN FloatZero
    ELSE LET k == shift_to_reach(m, t, 0)
             r0 == m * pow2(k) - t
             n1 == r0 * LimbBase
             n2 == (n1 % t) * LimbBase
             n3 == (n2 % t) * LimbBase
             n4 == (n3 % t) * LimbBase
             rem == n4 % t
             sig == <<1, n1 \div t, n2 \div t, n3 \div t, n4 \div t>>
             up == 2 * rem > t \/ (2 * rem = t /\ sig[5] % 2 = 1)
         IN  IF up THEN float_round_up(sig, -k) ELSE [sig |-> sig, exp |-> -k]

\* The number of bits of v >= 1, less one.
RECURSIVE bit_length_less_one(_)
bit_length_less_one(v) == IF v < 2 THEN 0 ELSE 1 + bit_length_less_one(v \div 2)

\* x * n for a double x and an integer 0 < n < 2^13 (n is exactly a
\* double): the exact product, then rounded to 53 bits.
float_mul(x, n) ==
    IF x.sig = <<>> THEN FloatZero
    ELSE LET p4 == x.sig[5] * n
             p3 == x.sig[4] * n + (p4 \div LimbBase)
             p2 == x.sig[3] * n + (p3 \div LimbBase)
             p1 == x.sig[2] * n + (p2 \div LimbBase)
             p0 == x.sig[1] * n + (p1 \div LimbBase)
             p == <<p0, p1 % LimbBase, p2 % LimbBase, p3 % LimbBase,
                    p4 % LimbBase>>
             extra == bit_length_less_one(p0)
             lo == pow2(extra)
             hi == pow2(LimbBits - extra)
             sig == <<p[1] \div lo,
                      (p[1] % lo) * hi + (p[2] \div lo),
                      (p[2] % lo) * hi + (p[3] \div lo),
                      (p[3] % lo) * hi + (p[4] \div lo),
                      (p[4] % lo) * hi + (p[5] \div lo)>>
             dropped == p[5] % lo
             up == \/ 2 * dropped > lo
                   \/ (2 * dropped = lo /\ sig[5] % 2 = 1)
         IN  IF up THEN float_round_up(sig, x.exp + extra)
             ELSE [sig |-> sig, exp |-> x.exp + extra]

\* int(x): the integer part of a double 0 <= x < 2^27.
float_to_int(x) ==
    IF x.sig = <<>> \/ x.exp < 0 THEN 0
    ELSE IF x.exp <= LimbBits
         THEN pow2(x.exp) + (x.sig[2] \div pow2(LimbBits - x.exp))
         ELSE pow2(x.exp) + x.sig[2] * pow2(x.exp - LimbBits)
              + (x.sig[3] \div pow2(2 * LimbBits - x.exp))

\* Line 440.
match_percentage(n_matched, total_skills) ==
    IF total_skills # 0
    THEN float_to_int(float_mul(float_div(n_matched, total_skills), 100))
    ELSE 0

(***************************************************************************)
(* find_courses and analyze_resume.                                        *)
(***************************************************************************)
Min(a, b) == IF a < b THEN a ELSE b

\* The slice s[:n].
Take(s, n) == SubSeq(s, 1, Min(n, Len(s)))

\* A variant of course_matches that compares without folding case.
course_matches_case_sensitive(sk, course) == str_contains(sk, course.title)

\* Line 481: skill.lower() in course.get('title', '').lower()
course_matches(sk, course) == str_contains(lower(sk), lower(course.title))

\* Lines 479-482: the matching courses, role by role, in course order.
RECURSIVE courses_from(_, _, _)
courses_from(sk, data, r) ==
    IF r > Len(data) THEN <<>>
    ELSE SelectSeq(data[r].recommended_courses,
                   LAMBDA c : course_matches(sk, c))
         \o courses_from(sk, data, r + 1)

\* Lines 476-482 raise when get_career_data() returned None (line 479), and
\* at the first course when the skill or a title is no string (line 481).
find_courses_raises(sk, data) ==
    \/ data = None
    \/ \E r \in 1..Len(data) : \E c \in 1..Len(data[r].recommended_courses) :
          ~is_str(sk) \/ ~is_str(data[r].recommended_courses[c].title)

\* Line 487: what the except clause logs.
find_courses_log(sk, data) ==
    IF find_courses_raises(sk, data) THEN {"Error finding courses"} ELSE {}

\* find_courses(skill), lines 473-488.
find_courses(sk, data) ==
    IF find_courses_raises(sk, data) THEN <<>>
    ELSE Take(courses_from(sk, data, 1), 3)

\* A variant of role_name_matches that compares without folding case.
role_name_matches_exactly(name, target) == name = target

\* Line 417: role.get('role', '').lower() == target_role.lower()
role_name_matches(name, target) == lower(name) = lower(target)

\* Lines 415-419: the index of the first role of that name, 0 when none.
find_role(target, data) ==
    IF \E r \in 1..Len(data) : role_name_matches(data[r].role, target)
    THEN CHOOSE r \in 1..Len(data) :
            /\ role_name_matches(data[r].role, target)
            /\ \A q \in 1..(r - 1) : ~role_name_matches(data[q].role, target)
    ELSE 0

\* Line 423.
available_roles(data) == [r \in 1..Len(data) |-> data[r].role]

\* A variant of missing_skills that goes through a set difference and so
\* keeps one occurrence of every skill.
missing_skills_as_set(skills, resume) ==
    LET kept == SelectSeq(skills, LAMBDA s : s \notin resume)
        firsts == {i \in 1..Len(kept) : \A j \in 1..(i - 1) : kept[j] # kept[i]}
    IN  [n \in 1..Cardinality(firsts) |->
            kept[CHOOSE i \in firsts :
                    Cardinality({j \in firsts : j < i}) = n - 1]]

\* Lines 434 and 435: [s for s in skills if s not in resume_skills]
missing_skills(skills, resume) == SelectSeq(skills, LAMBDA s : s \notin resume)

\* Line 436: [s for s in required_skills + preferred_skills if s in resume_skills]
matched_skills(required, preferred, resume) ==
    SelectSeq(required \o preferred, LAMBDA s : s \in resume)

\* Lines 444-449 and 451-456: one entry per skill of the slice.
plan_entries(skills, n, priority, data) ==
    [i \in 1..Len(Take(skills, n)) |->
        [skill |-> skills[i], priority |-> priority,
         resources |-> find_courses(skills[i], data)]]

\* A variant of improvement_plan that takes three preferred skills too.
improvement_plan_three_each(missing_required, missing_preferred, data) ==
    plan_entries(missing_required, 3, "High", data)
    \o plan_entries(missing_preferred, 3, "Medium", data)

\* Lines 442-456.
improvement_plan(missing_required, missing_preferred, data) ==
    plan_entries(missing_required, 3, "High", data)
    \o plan_entries(missing_preferred, 2, "Medium", data)

\* Lines 412-467 raise when get_career_data() returned None (line 416).
analyze_resume_raises(data) == data = None

\* Lines 470 and 487: what analyze_resume and its course lookups log.
analyze_resume_log(resume, target, data) ==
    IF analyze_resume_raises(data) THEN {"Error analyzing resume"}
    ELSE IF find_role(target, data) = 0 THEN {}
    ELSE LET role_data == data[find_role(target, data)]
             missing_required == missing_skills(role_data.required_skills, resume)
             missing_preferred == missing_skills(role_data.preferred_skills, resume)
         IN  UNION ({find_courses_log(missing_required[i], data)
                        : i \in 1..Len(Take(missing_required, 3))}
                    \cup {find_courses_log(missing_preferred[i], data)
                             : i \in 1..Len(Take(missing_preferred, 2))})

\* analyze_resume(resume_skills, target_role), lines 409-471.
analyze_resume(resume, target, data) ==
    IF analyze_resume_raises(data)
    THEN [status |-> 500, error |-> "Failed to analyze resume"]
    ELSE
    LET r == find_role(target, data)
    IN  IF r = 0
        THEN [status |-> 404, error |-> "not found", target |-> target,
              available_roles |-> available_roles(data)]
        ELSE LET required == data[r].required_skills
                 preferred == data[r].preferred_skills
                 missing_required == missing_skills(required, resume)
                 missing_preferred == missing_skills(preferred, resume)
                 matched == matched_skills(required, preferred, resume)
                 total_skills == Len(required) + Len(preferred)
             IN  [status |-> 200,
                  role |-> data[r].role,
                  match_percentage |-> match_percentage(Len(matched), total_skills),
                  matched_skills |-> matched,
                  missing_required |-> missing_required,
                  missing_preferred |-> missing_preferred,
                  improvement_plan |->
                      improvement_plan(missing_required, missing_preferred, data)]

(***************************************************************************)
(* career_path.  A role's experience_level is kept as the list of tokens   *)
(* that split(' to ') yields ("Entry to Senior" is <<"Entry", "Senior">>). *)
(* A match score is kept in half points: match_score2 = 2 * match_score.   *)
(***************************************************************************)
\* Line 510.
level_order == <<"Entry", "Mid", "Senior", "Lead">>

\* level_order.index(l) raises ValueError.
index_raises(l) == \A i \in 1..Len(level_order) : level_order[i] # l

\* level_order.index(l), when it does not raise.
level_index(l) == CHOOSE i \in 1..Len(level_order) : level_order[i] = l

\* A variant of experience_excluded that skips the role when the requested
\* level is not on the scale.
experience_excluded_unknown_out(levels, experience) ==
    LET min_level == levels[1]
        max_level == IF Len(levels) > 1 THEN levels[Len(levels)] ELSE min_level
    IN  IF index_raises(experience) THEN TRUE
        ELSE IF index_raises(min_level) THEN FALSE
        ELSE IF level_index(experience) < level_index(min_level) THEN TRUE
        ELSE IF index_raises(max_level) THEN FALSE
        ELSE level_index(experience) > level_index(max_level)

\* Lines 506-517: the role is skipped (continue).  The operands of the
\* condition are evaluated left to right, `or` short-circuits, and a
\* ValueError from any index() call leaves the role in.
experience_excluded(levels, experience) ==
    LET min_level == levels[1]
        max_level == IF Len(levels) > 1 THEN levels[Len(levels)] ELSE min_level
    IN  IF index_raises(experience) THEN FALSE
        ELSE IF index_raises(min_level) THEN FALSE
        ELSE IF level_index(experience) < level_index(min_level) THEN TRUE
        ELSE IF index_raises(max_level) THEN FALSE
        ELSE level_index(experience) > level_index(max_level)

\* Line 520, doubled.
match_score2(role, resume) ==
    2 * Cardinality(SeqToSet(role.required_skills) \cap resume)
    + Cardinality(SeqToSet(role.preferred_skills) \cap resume)

\* Line 523.
current_growth(role) ==
    IF role.demand_index # <<>>
    THEN role.demand_index[Len(role.demand_index)]
    ELSE 100

\* Lines 525-533.
recommendation(role, resume) ==
    [role |-> role.role,
     match_score2 |-> match_score2(role, resume),
     growth |-> current_growth(role),
     missing_skills |-> SeqToSet(role.required_skills) \ resume]

\* Lines 500-533: the recommendations of roles r.. in catalog order.
RECURSIVE recommendations_from(_, _, _, _)
recommendations_from(data, r, resume, experience) ==
    IF r > Len(data) THEN <<>>
    ELSE (IF /\ ~experience_excluded(data[r].experience_level, experience)
             /\ match_score2(data[r], resume) > 0
          THEN <<recommendation(data[r], resume)>>
          ELSE <<>>)
         \o recommendations_from(data, r + 1, resume, experience)

\* The sort key (match_score, growth) of a is greater than that of b.
key_greater(a, b) ==
    \/ a.match_score2 > b.match_score2
    \/ (a.match_score2 = b.match_score2 /\ a.growth > b.growth)

\* A variant of insert_before_equal that passes the entries of equal key:
\* the sort it gives is not stable.
RECURSIVE insert_after_equal(_, _)
insert_after_equal(x, s) ==
    IF s = <<>> THEN <<x>>
    ELSE IF ~key_greater(x, Head(s))
         THEN <<Head(s)>> \o insert_after_equal(x, Tail(s))
         ELSE <<x>> \o s

\* x put into the sorted list s, before the first entry whose key is not
\* greater than x's.
RECURSIVE insert_before_equal(_, _)
insert_before_equal(x, s) ==
    IF s = <<>> THEN <<x>>
    ELSE IF key_greater(Head(s), x)
         THEN <<Head(s)>> \o insert_before_equal(x, Tail(s))
         ELSE <<x>> \o s

\* Line 536: list.sort(key=..., reverse=True) is a stable sort, so entries
\* of equal key keep their order.
RECURSIVE sort_descending(_)
sort_descending(s) ==
    IF s = <<>> THEN <<>>
    ELSE insert_before_equal(Head(s), sort_descending(Tail(s)))

\* Line 538: the slice of the response.
top_recommendations(sorted) == Take(sorted, 5)

(***************************************************************************)
(* Skill extraction: the vocabulary is one free entry beside fixed ones.   *)
(***************************************************************************)
TextChars == {"c", "C", "+", ".", "n"}

\* Skill names: short strings with at least one word character ("c+", ".n").
SkillNames ==
    {s \in StringsOver(TextChars, 1, MaxSkillLen) :
        \E i \in 1..Len(s) : s[i] \in WordChars}

ExtractCatalog(s) ==
    <<Role(<<"S", "e">>, <<s, <<"c", "n">>>>, <<<<"n", ".", "c">>>>,
           <<105>>, <<>>, <<"Entry", "Senior">>),
      Role(<<"D", "s">>, <<<<"c", "n">>>>, <<<<"C">>>>,
           <<>>, <<>>, <<"Mid">>)>>

InitExtract ==
    /\ \E s \in SkillNames : career_data = ExtractCatalog(s)
    /\ text \in StringsOver(TextChars, 0, MaxTextLen)
    /\ resume_skills = {}
    /\ target_role = <<>>
    /\ experience_level = "Entry"
    /\ skill = <<>>
    /\ recommended_roles = <<>>
    /\ response = NoResponse
    /\ pc = "start"
    /\ InitServer

\* upload_resume, lines 375-376: resume_skills = extract_skills(text)
ExtractSkills ==
    /\ pc = "start"
    /\ resume_skills' = extract_skills(text, get_career_data)
    /\ pc' = "extracted"
    /\ UNCHANGED <<career_data, text, target_role, experience_level, skill,
                   recommended_roles, response>>
    /\ UNCHANGED server_vars

NextExtract == ExtractSkills

SpecExtract == InitExtract /\ [][NextExtract]_vars

(***************************************************************************)
(* Resume analysis: one role with free skill lists beside a fixed role,    *)
(* and one role with many distinct skills.                                 *)
(***************************************************************************)
MaxReq == 4
MaxPref == 3
BigReq == 30
BigPref == 20

Py == <<"p", "y">>
Sq == <<"s", "q">>
Aw == <<"a", "w">>
Go == <<"g", "o">>

ReqPool == {Py, Sq}
PrefPool == {Sq, Aw}
ResumePool == {Py, Sq, Aw, Go}

\* The i-th skill of the big role: "k" and two digits.
BigSkill(i) == <<"k", Digits[(i \div 10) + 1], Digits[(i % 10) + 1]>>

SeCourses ==
    <<Course(<<"P", "y", "1">>, "Udemy"), Course(<<"S", "q">>, "Udemy"),
      Course(<<"k", "3", "0">>, "edX")>>
DsCourses ==
    <<Course(<<"x", "P", "Y">>, "Coursera"), Course(<<"p", "y", "2">>, "Coursera"),
      Course(<<"a", "w", "s">>, "edX"), Course(<<"p", "y", "4">>, "edX")>>

DsRole ==
    Role(<<"D", "s">>, <<Py, Go>>, <<Aw>>, <<103>>, DsCourses, <<"Entry", "Senior">>)

AnalyzeCatalog(req, pref) ==
    <<Role(<<"S", "e">>, req, pref, <<105>>, SeCourses, <<"Entry", "Senior">>),
      DsRole>>

InitAnalyzeSmall ==
    /\ \E req \in StringsOver(ReqPool, 0, MaxReq) :
       \E pref \in StringsOver(PrefPool, 0, MaxPref) :
          career_data = AnalyzeCatalog(req, pref)
    /\ resume_skills \in SUBSET ResumePool

InitAnalyzeBig ==
    /\ career_data = AnalyzeCatalog([i \in 1..BigReq |-> BigSkill(i)],
                                    [i \in 1..BigPref |-> BigSkill(BigReq + i)])
    /\ \E k \in 0..(BigReq + BigPref) :
          resume_skills = {BigSkill(i) : i \in 1..k}

InitAnalyze ==
    /\ InitAnalyzeSmall \/ InitAnalyzeBig
    /\ target_role = <<"s", "e">>
    /\ text = <<>>
    /\ experience_level = "Entry"
    /\ skill = <<>>
    /\ recommended_roles = <<>>
    /\ response = NoResponse
    /\ pc = "extracted"
    /\ InitServer

\* upload_resume, line 379: return analyze_resume(resume_skills, target_role)
AnalyzeResume ==
    /\ pc = "extracted"
    /\ response' = analyze_resume(resume_skills, target_role, get_career_data)
    /\ pc' = "done"
    /\ UNCHANGED <<career_data, text, resume_skills, target_role,
                   experience_level, skill, recommended_roles>>
    /\ UNCHANGED server_vars

NextAnalyze == AnalyzeResume

SpecAnalyze == InitAnalyze /\ [][NextAnalyze]_vars

(***************************************************************************)
(* Role lookup: catalogs whose role names differ in case or repeat.        *)
(***************************************************************************)
NLookupRoles == 3

NamePool == {<<"S", "e">>, <<"S", "E">>, <<"s", "e">>, <<"D", "s">>}
TargetPool ==
    {<<"s", "e">>, <<"S", "e">>, <<"S", "E">>, <<"d", "s">>, <<"D", "S">>,
     <<"s", "d">>, <<"s">>}

\* The skills of the r-th role: every role of the lookup catalogs has its own.
LookupSkill(r) == <<"k", Digits[1], Digits[r + 1]>>

InitLookup ==
    /\ \E names \in [1..NLookupRoles -> NamePool] :
          career_data =
              [r \in 1..NLookupRoles |->
                  Role(names[r], <<LookupSkill(r), Py>>, <<Aw>>, <<105>>,
                       SeCourses, <<"Entry", "Senior">>)]
    /\ target_role \in TargetPool
    /\ resume_skills = {Py}
    /\ text = <<>>
    /\ experience_level = "Entry"
    /\ skill = <<>>
    /\ recommended_roles = <<>>
    /\ response = NoResponse
    /\ pc = "extracted"
    /\ InitServer

SpecLookup == InitLookup /\ [][NextAnalyze]_vars

(***************************************************************************)
(* Course search: two roles with free course lists.                        *)
(***************************************************************************)
MaxCourses == 2

\* Titles; the empty one is what course.get('title', '') gives without a title.
TitlePool ==
    {<<"P", "y">>, <<"p", "y", "x">>, <<"x", "P", "Y">>, <<"y", "p">>, <<>>}
CourseSkillPool ==
    {<<"p", "y">>, <<"P", "Y">>, <<"y">>, <<"Y", "x">>, <<"q">>, <<>>}

\* Courses with the given titles; the platform tells the catalog slot.
CoursesOf(titles, platform) ==
    [c \in 1..Len(titles) |-> Course(titles[c], <<platform, c>>)]

InitCourses ==
    /\ \E t1 \in StringsOver(TitlePool, 0, MaxCourses) :
       \E t2 \in StringsOver(TitlePool, 0, MaxCourses) :
          career_data =
              <<Role(<<"S", "e">>, <<Py>>, <<Aw>>, <<105>>,
                     CoursesOf(t1, "Udemy"), <<"Entry", "Senior">>),
                Role(<<"D", "s">>, <<Py>>, <<Aw>>, <<103>>,
                     CoursesOf(t2, "edX"), <<"Entry", "Senior">>)>>
    /\ skill \in CourseSkillPool
    /\ resume_skills = {}
    /\ target_role = <<>>
    /\ text = <<>>
    /\ experience_level = "Entry"
    /\ recommended_roles = <<>>
    /\ response = NoResponse
    /\ pc = "lookup"
    /\ InitServer

\* find_courses(skill), lines 473-484.
FindCourses ==
    /\ pc = "lookup"
    /\ response' = [status |-> 200, courses |-> find_courses(skill, get_career_data)]
    /\ pc' = "done"
    /\ UNCHANGED <<career_data, text, resume_skills, target_role,
                   experience_level, skill, recommended_roles>>
    /\ UNCHANGED server_vars

NextCourses == FindCourses

SpecCourses == InitCourses /\ [][NextCourses]_vars

(***************************************************************************)
(* Career path: every role takes one of three profiles.                    *)
(***************************************************************************)
NCareerRoles == 6
MaxLevelTokens == 2

Profiles ==
    {[req |-> <<Py>>, pref |-> <<Sq>>, demand |-> <<90, 105>>,
      levels |-> <<"Entry", "Senior">>],
     [req |-> <<Py, Sq>>, pref |-> <<>>, demand |-> <<>>,
      levels |-> <<"Entry", "Lead">>],
     [req |-> <<Sq, Sq>>, pref |-> <<Py>>, demand |-> <<105>>,
      levels |-> <<"Mid", "Lead">>]}

RoleName(r) == <<"r", Digits[r + 1]>>

ProfileRole(r, p) ==
    Role(RoleName(r), p.req, p.pref, p.demand, <<>>, p.levels)

InitCareerCommon ==
    /\ target_role = <<>>
    /\ text = <<>>
    /\ skill = <<>>
    /\ recommended_roles = <<>>
    /\ response = NoResponse
    /\ pc = "career"
    /\ InitServer

InitCareer ==
    /\ \E ps \in [1..NCareerRoles -> Profiles] :
          career_data = [r \in 1..NCareerRoles |-> ProfileRole(r, ps[r])]
    /\ resume_skills \in SUBSET {Py, Sq}
    /\ experience_level \in {"Entry", "Mid", "Expert"}
    /\ InitCareerCommon

\* The tokens a role's experience_level may hold: the scale and one more.
LevelTokens == {"Entry", "Mid", "Senior", "Lead", "Junior"}
ExperiencePool == {"Entry", "Mid", "Senior", "Lead", "Expert"}

InitFilter ==
    /\ \E l1 \in StringsOver(LevelTokens, 1, MaxLevelTokens) :
       \E l2 \in StringsOver(LevelTokens, 1, 1) :
          career_data =
              <<Role(RoleName(1), <<Py>>, <<Sq>>, <<105>>, <<>>, l1),
                Role(RoleName(2), <<Py, Sq>>, <<>>, <<>>, <<>>, l2)>>
    /\ resume_skills = {Py}
    /\ experience_level \in ExperiencePool
    /\ InitCareerCommon

\* career_path, lines 491-538.
CareerPath ==
    /\ pc = "career"
    /\ LET sorted == sort_descending(
                         recommendations_from(get_career_data, 1, resume_skills,
                                              experience_level))
       IN  /\ recommended_roles' = sorted
           /\ response' = [status |-> 200, roles |-> top_recommendations(sorted)]
    /\ pc' = "done"
    /\ UNCHANGED <<career_data, text, resume_skills, target_role,
                   experience_level, skill>>
    /\ UNCHANGED server_vars

NextCareer == CareerPath

SpecCareer == InitCareer /\ [][NextCareer]_vars

SpecFilter == InitFilter /\ [][NextCareer]_vars

(***************************************************************************)
(* Loading and reloading the catalog, one request at a time, while the     *)
(* stored file changes between requests.                                   *)
(***************************************************************************)
MaxStored == 2

SeStored ==
    StoredRole(<<"S", "e">>, "Technology", <<Py, Sq>>, <<Aw>>,
               Salary(75000, 110000, 150000, 200000), <<105>>, SeCourses)
DsStored ==
    StoredRole(<<"D", "s">>, "Data & Analytics", <<Py, Go>>, <<Aw>>,
               Salary(80000, 120000, 160000, 220000), <<103>>, DsCourses)

\* The object without some of its keys.
Omit(role, fields) == [k \in DOMAIN role \ fields |-> role[k]]

StoredItems ==
    {SeStored, DsStored, Omit(SeStored, {"category"}),
     Omit(DsStored, {"role", "growth_trend", "recommended_courses"}),
     [job_outlook |-> "Excellent"], JsonScalar}

OtherKinds ==
    {"missing", "unreadable", "malformed", "not_a_dict", "no_career_roles",
     "not_a_list"}

StoredFiles ==
    {StoredOther(k) : k \in OtherKinds}
        \cup {StoredList(roles) : roles \in StringsOver(StoredItems, 0, MaxStored)}

InitLoad ==
    /\ career_data = None
    /\ storage \in StoredFiles
    /\ file = Upload(FALSE, <<>>, FALSE)
    /\ log = {}
    /\ InitThreads
    /\ text = <<>>
    /\ resume_skills = {}
    /\ target_role = <<>>
    /\ experience_level = "Entry"
    /\ skill = <<>>
    /\ recommended_roles = <<>>
    /\ response = NoResponse
    /\ pc = "start"

\* Lines 188-207: the handler of /api/data_status; role['category'] and
\* role['role'] raise KeyError on a role without the key.
DataStatus ==
    /\ career_data' = get_career_data
    /\ response' =
          IF \A r \in 1..Len(get_career_data) :
                {"category", "role"} \subseteq DOMAIN get_career_data[r]
          THEN [status |-> 200,
                file_exists |-> storage.kind # "missing",
                roles_count |-> Len(get_career_data),
                categories |-> {get_career_data[r].category
                                   : r \in 1..Len(get_career_data)},
                roles |-> [r \in 1..Len(get_career_data) |->
                              get_career_data[r].role]]
          ELSE [status |-> 500, error |-> "KeyError"]
    /\ pc' = "status"
    /\ UNCHANGED <<text, resume_skills, target_role, experience_level, skill,
                   recommended_roles, storage, file, log>>
    /\ UNCHANGED thread_vars

\* Lines 172-186: the handler of /api/reload_data.
ReloadData ==
    /\ career_data' = reload_career_data
    /\ response' = [status |-> 200, success |-> TRUE,
                    roles_count |-> Len(reload_career_data)]
    /\ pc' = "reloaded"
    /\ UNCHANGED <<text, resume_skills, target_role, experience_level, skill,
                   recommended_roles, storage, file, log>>
    /\ UNCHANGED thread_vars

\* Line 34: the file data/career_data.json is rewritten from outside.
WriteStorage ==
    /\ storage' \in StoredFiles \ {storage}
    /\ pc' = "written"
    /\ UNCHANGED <<career_data, text, resume_skills, target_role,
                   experience_level, skill, recommended_roles, response,
                   file, log>>
    /\ UNCHANGED thread_vars

NextLoad == DataStatus \/ ReloadData \/ WriteStorage

SpecLoad == InitLoad /\ [][NextLoad]_vars

(***************************************************************************)
(* Uploading a resume: the whole handler, one request at a time, on stored *)
(* catalogs in which a skill entry or a course title may be null.          *)
(***************************************************************************)
\* Line 361: str.strip(), for the blank " ".
strip(s) ==
    LET kept == {i \in 1..Len(s) : s[i] # " "}
    IN  IF kept = {} THEN <<>>
        ELSE SubSeq(s, CHOOSE i \in kept : \A j \in kept : i <= j,
                       CHOOSE i \in kept : \A j \in kept : i >= j)

\* Line 365: str.endswith()
ends_with(s, suffix) ==
    /\ Len(s) >= Len(suffix)
    /\ SubSeq(s, Len(s) - Len(suffix) + 1, Len(s)) = suffix

\* Lines 353-373: the request reaches extract_skills.
upload_reaches_extraction ==
    /\ file.present
    /\ file.filename # <<>>
    /\ strip(target_role) # <<>>
    /\ ends_with(file.filename, <<".", "p", "d", "f">>)
    /\ file.readable

\* Lines 352-385: the response of upload_resume.
upload_resume ==
    IF ~file.present
    THEN [status |-> 400, error |-> "No file uploaded"]
    ELSE IF file.filename = <<>>
    THEN [status |-> 400, error |-> "No selected file"]
    ELSE IF strip(target_role) = <<>>
    THEN [status |-> 400, error |-> "Target role must be selected before analysis"]
    ELSE IF ~ends_with(file.filename, <<".", "p", "d", "f">>)
    THEN [status |-> 400, error |-> "Invalid file format"]
    ELSE IF ~file.readable
    THEN [status |-> 500, error |-> "Failed to process resume"]
    ELSE analyze_resume(extract_skills(text, get_career_data),
                        strip(target_role), get_career_data)

\* Lines 384, 406, 470 and 487: what the request logs.
upload_resume_log ==
    IF upload_reaches_extraction
    THEN extract_skills_log(get_career_data)
         \cup analyze_resume_log(extract_skills(text, get_career_data),
                                 strip(target_role), get_career_data)
    ELSE IF upload_resume.status = 500 THEN {"Error in upload_resume"}
    ELSE {}

PdfName == <<"c", "v", ".", "p", "d", "f">>
TxtName == <<"c", "v", ".", "t", "x", "t">>

UploadPool ==
    {Upload(FALSE, <<>>, FALSE), Upload(TRUE, <<>>, FALSE),
     Upload(TRUE, TxtName, FALSE), Upload(TRUE, PdfName, FALSE),
     Upload(TRUE, PdfName, TRUE)}

UploadTextPool ==
    {<<>>, <<"p", "y">>, <<"P", "Y", " ", "s", "q", " ", "a", "w">>}

UploadTargetPool ==
    {<<>>, <<" ">>, <<"s", "e">>, <<" ", "S", "e", " ">>, <<"d", "s">>,
     <<"q", "a">>}

NullTitled == <<Course(None, "edX")>>

\* Stored catalogs of two complete roles; null stands for a skill entry of
\* either role or for a course title.
UploadCatalogs ==
    {<<StoredRole(<<"S", "e">>, "Technology", req, <<Aw>>,
                  Salary(75000, 110000, 150000, 200000), <<105>>, courses),
       StoredRole(<<"D", "s">>, "Data & Analytics", <<Py, Go>>, pref,
                  Salary(80000, 120000, 160000, 220000), <<103>>, others)>>
        : req \in {<<Py, Sq>>, <<Py, None>>},
          courses \in {SeCourses, <<>>, SeCourses \o NullTitled},
          pref \in {<<Aw>>, <<None>>},
          others \in {DsCourses, <<>>}}

UploadFiles ==
    {StoredList(roles) : roles \in UploadCatalogs} \cup {StoredOther("missing")}

InitUpload ==
    /\ career_data = None
    /\ storage \in UploadFiles
    /\ file \in UploadPool
    /\ text \in UploadTextPool
    /\ target_role \in UploadTargetPool
    /\ log = {}
    /\ InitThreads
    /\ resume_skills = {}
    /\ experience_level = "Entry"
    /\ skill = <<>>
    /\ recommended_roles = <<>>
    /\ response = NoResponse
    /\ pc = "start"

\* Lines 350-385: the handler of /upload_resume.
UploadResume ==
    /\ pc = "start"
    /\ career_data' =
          IF upload_reaches_extraction THEN get_career_data ELSE career_data
    /\ resume_skills' =
          IF upload_reaches_extraction
          THEN extract_skills(text, get_career_data) ELSE resume_skills
    /\ response' = upload_resume
    /\ log' = log \cup upload_resume_log
    /\ pc' = "done"
    /\ UNCHANGED <<text, target_role, experience_level, skill,
                   recommended_roles, storage, file>>
    /\ UNCHANGED thread_vars

NextUpload == UploadResume

SpecUpload == InitUpload /\ [][NextUpload]_vars

(***************************************************************************)
(* Reloading while other requests read: every thread serves requests of    *)
(* /api/data_status and /api/reload_data, one after the other.             *)
(***************************************************************************)
ReloadFiles ==
    {StoredList(<<SeStored, DsStored>>), StoredList(<<DsStored>>),
     StoredOther("missing")}

InitReload ==
    /\ career_data = None
    /\ storage \in ReloadFiles
    /\ file = Upload(FALSE, <<>>, FALSE)
    /\ log = {}
    /\ InitThreads
    /\ text = <<>>
    /\ resume_skills = {}
    /\ target_role = <<>>
    /\ experience_level = "Entry"
    /\ skill = <<>>
    /\ recommended_roles = <<>>
    /\ response = NoResponse
    /\ pc = "start"

\* Line 192: a thread starts to serve /api/data_status.
StartDataStatus(t) ==
    /\ threads[t].pc \in {"idle", "responded"}
    /\ threads' = [threads EXCEPT ![t] = Frame("get", "check", None, None, 0)]
    /\ UNCHANGED <<career_data, text, resume_skills, target_role,
                   experience_level, skill, recommended_roles, response, pc,
                   storage, file, log, frame, snapshots>>

\* Line 176: a thread starts to serve /api/reload_data.
StartReloadData(t) ==
    /\ threads[t].pc \in {"idle", "responded"}
    /\ threads' = [threads EXCEPT ![t] = Frame("reload", "clear", None, None, 0)]
    /\ UNCHANGED <<career_data, text, resume_skills, target_role,
                   experience_level, skill, recommended_roles, response, pc,
                   storage, file, log, frame, snapshots>>

\* Lines 162-164 and 169: the thread's next access.
ThreadStep(t) ==
    /\ in_call(threads[t])
    /\ threads' = [threads EXCEPT ![t] = step_frame(@)]
    /\ career_data' = step_career_data(threads[t])
    /\ UNCHANGED <<text, resume_skills, target_role, experience_level, skill,
                   recommended_roles, response, pc, storage, file, log, frame,
                   snapshots>>

\* Lines 177-186 and 195-207: data['career_roles'] raises TypeError on None,
\* and the except clause answers 500.  The locals end with the request.
ThreadRespond(t) ==
    /\ threads[t].pc = "returned"
    /\ threads' = [threads EXCEPT ![t] =
                      Frame(threads[t].op, "responded", None, None,
                            IF threads[t].data = None THEN 500 ELSE 200)]
    /\ UNCHANGED <<career_data, text, resume_skills, target_role,
                   experience_level, skill, recommended_roles, response, pc,
                   storage, file, log, frame, snapshots>>

\* Line 34: the file data/career_data.json is replaced from outside.
ReplaceStorage(files) ==
    /\ storage' \in files \ {storage}
    /\ UNCHANGED <<career_data, text, resume_skills, target_role,
                   experience_level, skill, recommended_roles, response, pc,
                   file, log>>
    /\ UNCHANGED thread_vars

NextReload ==
    \/ \E t \in Threads : StartDataStatus(t)
    \/ \E t \in Threads : StartReloadData(t)
    \/ \E t \in Threads : ThreadStep(t)
    \/ \E t \in Threads : ThreadRespond(t)
    \/ ReplaceStorage(ReloadFiles)

SpecReload == InitReload /\ [][NextReload]_vars

(***************************************************************************)
(* One resume analysis while other threads reload and the stored file is   *)
(* replaced.  The request has passed lines 353-373; it is followed through *)
(* its calls of get_career_data: in extract_skills (line 390), in          *)
(* analyze_resume (line 412) and in every find_courses (line 476).  While  *)
(* the plan is built, response holds the locals of analyze_resume.         *)
(***************************************************************************)
SeReplaced ==
    StoredRole(<<"S", "e">>, "Technology", <<Py, Go>>, <<Sq>>,
               Salary(75000, 110000, 150000, 200000), <<105>>,
               <<Course(<<"G", "o">>, "edX"), Course(<<"s", "q", "l">>, "edX")>>)

SnapshotFiles ==
    {StoredList(<<SeStored, DsStored>>), StoredList(<<SeReplaced>>)}

SnapshotTextPool == {<<"p", "y">>, <<"p", "y", " ", "s", "q">>}

\* The thread that serves /api/reload_data beside the upload request.
Reloaders == {1}

\* A call of get_career_data that is about to start.
Calling == Frame("get", "check", None, None, 0)

InitSnapshot ==
    /\ career_data = None
    /\ storage \in SnapshotFiles
    /\ file = Upload(TRUE, PdfName, TRUE)
    /\ log = {}
    /\ threads = [t \in Threads |-> Idle]
    /\ frame = Calling
    /\ snapshots = <<>>
    /\ text \in SnapshotTextPool
    /\ resume_skills = {}
    /\ target_role = <<"s", "e">>
    /\ experience_level = "Entry"
    /\ skill = <<>>
    /\ recommended_roles = <<>>
    /\ response = NoResponse
    /\ pc = "start"

\* Lines 162-164: the next access of the request's call of get_career_data.
UploadGetStep ==
    /\ in_call(frame)
    /\ frame' = step_frame(frame)
    /\ career_data' = step_career_data(frame)
    /\ UNCHANGED <<text, resume_skills, target_role, experience_level, skill,
                   recommended_roles, response, pc, storage, file, log,
                   threads, snapshots>>

\* Lines 376 and 390-407: extract_skills on the catalog its call returned;
\* then analyze_resume starts and calls get_career_data (line 412).
UploadExtract ==
    /\ pc = "start"
    /\ frame.pc = "returned"
    /\ snapshots' = Append(snapshots, frame.data)
    /\ resume_skills' = extract_skills(text, frame.data)
    /\ log' = log \cup extract_skills_log(frame.data)
    /\ pc' = "extracted"
    /\ frame' = Calling
    /\ UNCHANGED <<career_data, text, target_role, experience_level, skill,
                   recommended_roles, response, storage, file, threads>>

\* Lines 444 and 451: the skills the plan gets an entry for.
plan_skills(analysis) ==
    Take(analysis.missing_required, 3) \o Take(analysis.missing_preferred, 2)

\* Lines 447 and 454.
plan_priority(analysis, i) ==
    IF i <= Len(Take(analysis.missing_required, 3)) THEN "High" ELSE "Medium"

\* Lines 412-443: analyze_resume up to the empty improvement plan, on the
\* catalog its call returned.
analysis_before_plan(resume, target, data) ==
    IF analyze_resume(resume, target, data).status = 200
    THEN [analyze_resume(resume, target, data) EXCEPT !.improvement_plan = <<>>]
    ELSE analyze_resume(resume, target, data)

\* Lines 412-443, and 458-471 when no plan entry is to be built.
UploadAnalyze ==
    /\ pc = "extracted"
    /\ frame.pc = "returned"
    /\ snapshots' = Append(snapshots, frame.data)
    /\ response' = analysis_before_plan(resume_skills, strip(target_role),
                                        frame.data)
    /\ log' = log \cup (IF analyze_resume_raises(frame.data)
                        THEN {"Error analyzing resume"} ELSE {})
    /\ IF response'.status = 200 /\ plan_skills(response') # <<>>
       THEN pc' = "courses" /\ frame' = Calling
       ELSE pc' = "done" /\ frame' = Idle
    /\ UNCHANGED <<career_data, text, resume_skills, target_role,
                   experience_level, skill, recommended_roles, storage, file,
                   threads>>

\* Lines 444-456 and 473-488: the next plan entry, with find_courses on the
\* catalog its call returned; the response of lines 458-467 after the last.
UploadFindCourses ==
    /\ pc = "courses"
    /\ frame.pc = "returned"
    /\ LET i == Len(response.improvement_plan) + 1
           sk == plan_skills(response)[i]
       IN  /\ skill' = sk
           /\ response' =
                 [response EXCEPT !.improvement_plan =
                     Append(@, [skill |-> sk,
                                priority |-> plan_priority(response, i),
                                resources |-> find_courses(sk, frame.data)])]
           /\ log' = log \cup find_courses_log(sk, frame.data)
           /\ IF i < Len(plan_skills(response))
              THEN pc' = "courses" /\ frame' = Calling
              ELSE pc' = "done" /\ frame' = Idle
    /\ snapshots' = Append(snapshots, frame.data)
    /\ UNCHANGED <<career_data, text, resume_skills, target_role,
                   experience_level, recommended_roles, storage, file, threads>>

NextSnapshot ==
    \/ UploadGetStep
    \/ UploadExtract
    \/ UploadAnalyze
    \/ UploadFindCourses
    \/ \E t \in Reloaders : StartReloadData(t)
    \/ \E t \in Reloaders : ThreadStep(t)
    \/ \E t \in Reloaders : ThreadRespond(t)
    \/ ReplaceStorage(SnapshotFiles)

SpecSnapshot == InitSnapshot /\ [][NextSnapshot]_vars

(***************************************************************************)
(* Definitions the properties are stated with.  They restate what the      *)
(* specification says and use none of the operators that model the code.   *)
(***************************************************************************)
\* s without the elements of X, order and repetitions kept.
RECURSIVE Without(_, _)
Without(s, X) ==
    IF s = <<>> THEN <<>>
    ELSE (IF Head(s) \in X THEN <<>> ELSE <<Head(s)>>) \o Without(Tail(s), X)

\* s restricted to the elements of X, order and repetitions kept.
RECURSIVE Within(_, _)
Within(s, X) ==
    IF s = <<>> THEN <<>>
    ELSE (IF Head(s) \in X THEN <<Head(s)>> ELSE <<>>) \o Within(Tail(s), X)

\* s with only the first occurrence of every element.
RECURSIVE Dedup(_)
Dedup(s) ==
    IF s = <<>> THEN <<>>
    ELSE LET front == Dedup(SubSeq(s, 1, Len(s) - 1))
             last == s[Len(s)]
         IN  IF last \in SeqToSet(front) THEN front ELSE Append(front, last)

NoRepeats(s) == \A i, j \in 1..Len(s) : s[i] = s[j] => i = j

SameIgnoringCase(a, b) ==
    Len(a) = Len(b) /\ \A i \in 1..Len(a) : lower_char(a[i]) = lower_char(b[i])

\* s occurs in t, ignoring case, with no word character right before or
\* right after the occurrence.
OccursAsWholeWord(s, t) ==
    \E i \in 1..(Len(t) - Len(s) + 1) :
        /\ SameIgnoringCase(SubSeq(t, i, i + Len(s) - 1), s)
        /\ ~(i > 1 /\ t[i - 1] \in WordChars)
        /\ ~(i + Len(s) <= Len(t) /\ t[i + Len(s)] \in WordChars)

Analyzed == pc = "done" /\ response.status = 200

\* The catalog role a successful analysis reports on (names are unique in
\* the catalogs of the analysis).
AnalyzedRole ==
    career_data[CHOOSE r \in 1..Len(career_data) :
                   career_data[r].role = response.role]

(***************************************************************************)
(* C1: the match percentage is floor(100 * |matched| / (|required| +       *)
(* |preferred|)) computed exactly on integers, 0 when the role lists no    *)
(* skill, and always within 0..100.                                        *)
(***************************************************************************)
C1_MatchPercentageIsExactFloor ==
    Analyzed =>
        LET total == Len(AnalyzedRole.required_skills)
                     + Len(AnalyzedRole.preferred_skills)
            matched == Len(response.matched_skills)
        IN  /\ response.match_percentage \in 0..100
            /\ response.match_percentage =
                  (IF total = 0 THEN 0 ELSE (100 * matched) \div total)

(***************************************************************************)
(* C2: a text that is exactly a vocabulary entry yields a result that      *)
(* contains that entry, whatever characters the entry begins or ends with. *)
(***************************************************************************)
C2_VerbatimEntryDetected ==
    (pc = "extracted" /\ text \in all_skills(career_data))
        => text \in resume_skills

(***************************************************************************)
(* C3: every extracted skill is a vocabulary entry that occurs in the text, *)
(* ignoring case, where neither the character before nor the character     *)
(* after the occurrence is a word character; an empty text yields nothing. *)
(***************************************************************************)
C3_ExtractedAreWholeWords ==
    pc = "extracted" =>
        /\ \A s \in resume_skills :
              s \in all_skills(career_data) /\ OccursAsWholeWord(s, text)
        /\ (text = <<>> => resume_skills = {})

(***************************************************************************)
(* C4: the matched list is the required-then-preferred concatenation       *)
(* restricted to the extracted skills, every skill at most once.           *)
(***************************************************************************)
C4_MatchedDeduplicated ==
    Analyzed =>
        /\ response.matched_skills =
              Dedup(Within(AnalyzedRole.required_skills
                           \o AnalyzedRole.preferred_skills, resume_skills))
        /\ NoRepeats(response.matched_skills)

(***************************************************************************)
(* C5: missingRequired (missingPreferred) is the required (preferred) list *)
(* without the extracted skills, in the role's order; neither shares an    *)
(* element with the extracted set; every required or preferred skill is in *)
(* exactly one of matched and missing.                                     *)
(***************************************************************************)
C5_MissingPartition ==
    Analyzed =>
        LET required == AnalyzedRole.required_skills
            preferred == AnalyzedRole.preferred_skills
            missing == SeqToSet(response.missing_required)
                       \cup SeqToSet(response.missing_preferred)
        IN  /\ response.missing_required = Without(required, resume_skills)
            /\ response.missing_preferred = Without(preferred, resume_skills)
            /\ missing \cap resume_skills = {}
            /\ \A s \in SeqToSet(required) \cup SeqToSet(preferred) :
                  (s \in SeqToSet(response.matched_skills)) # (s \in missing)

C5_Witness ==
    /\ Analyzed
    /\ response.missing_required # <<>>
    /\ Len(response.missing_required) < Len(AnalyzedRole.required_skills)
    /\ response.missing_preferred # <<>>
    /\ Len(response.missing_preferred) < Len(AnalyzedRole.preferred_skills)

(***************************************************************************)
(* C6: the improvement plan is the first min(3, n) missing required skills *)
(* with priority High, then the first min(2, n) missing preferred skills   *)
(* with priority Medium; at most 5 entries, none for an extracted skill,   *)
(* at most 3 courses each.  With nothing extracted the plan is the first 3 *)
(* required then the first 2 preferred skills, and the percentage is 0.    *)
(***************************************************************************)
C6_ImprovementPlan ==
    Analyzed =>
        LET required == AnalyzedRole.required_skills
            preferred == AnalyzedRole.preferred_skills
            mr == Without(required, resume_skills)
            mp == Without(preferred, resume_skills)
            nh == IF Len(mr) < 3 THEN Len(mr) ELSE 3
            nm == IF Len(mp) < 2 THEN Len(mp) ELSE 2
            plan == response.improvement_plan
        IN  /\ Len(plan) = nh + nm
            /\ Len(plan) <= 5
            /\ \A i \in 1..nh :
                  plan[i].skill = mr[i] /\ plan[i].priority = "High"
            /\ \A i \in 1..nm :
                  plan[nh + i].skill = mp[i] /\ plan[nh + i].priority = "Medium"
            /\ \A i \in 1..Len(plan) :
                  plan[i].skill \notin resume_skills /\ Len(plan[i].resources) <= 3
            /\ resume_skills = {} =>
                  /\ [i \in 1..Len(plan) |-> plan[i].skill] =
                        SubSeq(required, 1, nh) \o SubSeq(preferred, 1, nm)
                  /\ response.match_percentage = 0

C6_Witness ==
    /\ Analyzed
    /\ Len(response.missing_required) > 3
    /\ Len(response.missing_preferred) > 2
    /\ Len(response.improvement_plan) = 5
    /\ resume_skills # {}
    /\ \E i \in 1..5 : Len(response.improvement_plan[i].resources) = 3

(***************************************************************************)
(* C7: find_courses returns the first at most 3 courses, in catalog order  *)
(* (role order, then course order), among the courses whose title contains *)
(* the skill name ignoring case; none is skipped for a later one, and no   *)
(* match gives the empty sequence, not an error.                           *)
(***************************************************************************)
ContainsIgnoringCase(a, b) ==
    \E i \in 1..(Len(b) - Len(a) + 1) :
        SameIgnoringCase(SubSeq(b, i, i + Len(a) - 1), a)

CourseSlots ==
    UNION {{<<r, c>> : c \in 1..Len(career_data[r].recommended_courses)}
           : r \in 1..Len(career_data)}

CourseAt(p) == career_data[p[1]].recommended_courses[p[2]]

MatchingSlots ==
    {p \in CourseSlots : ContainsIgnoringCase(skill, CourseAt(p).title)}

SlotBefore(p, q) == p[1] < q[1] \/ (p[1] = q[1] /\ p[2] < q[2])

SlotRank(p) == Cardinality({q \in MatchingSlots : SlotBefore(q, p)}) + 1

C7_FirstThreeMatchingCourses ==
    (pc = "done" /\ "courses" \in DOMAIN response) =>
        /\ response.status = 200
        /\ Len(response.courses) =
              (IF Cardinality(MatchingSlots) < 3
               THEN Cardinality(MatchingSlots) ELSE 3)
        /\ \A p \in MatchingSlots :
              SlotRank(p) <= 3 => response.courses[SlotRank(p)] = CourseAt(p)

C7_Witness ==
    /\ pc = "done"
    /\ "courses" \in DOMAIN response
    /\ Cardinality(MatchingSlots) > 3
    /\ Len(response.courses) = 3
    /\ response.courses[1].platform[1] # response.courses[3].platform[1]
    /\ \E i \in 1..3 : ~str_contains(skill, response.courses[i].title)

(***************************************************************************)
(* C8: career_path returns the first 5 of the roles that pass the          *)
(* experience filter and have score |required n extracted| + 0.5 *         *)
(* |preferred n extracted| > 0, ordered descending by (score, growth),     *)
(* equal keys in catalog order; never more than 5, never a score of 0.     *)
(***************************************************************************)
OrdinalOf == [Entry |-> 1, Mid |-> 2, Senior |-> 3, Lead |-> 4]

OnScale(l) == l \in DOMAIN OrdinalOf

RangeMin(role) == role.experience_level[1]
RangeMax(role) == role.experience_level[Len(role.experience_level)]

\* For a level and a range that are on the scale.
OutsideRange(role, l) ==
    \/ OrdinalOf[l] < OrdinalOf[RangeMin(role)]
    \/ OrdinalOf[l] > OrdinalOf[RangeMax(role)]

RangeOnScale(role) == OnScale(RangeMin(role)) /\ OnScale(RangeMax(role))

\* Twice the score, so that it is an integer.
Score2(role) ==
    2 * Cardinality({s \in resume_skills :
                        \E i \in DOMAIN role.required_skills :
                            role.required_skills[i] = s})
    + Cardinality({s \in resume_skills :
                        \E i \in DOMAIN role.preferred_skills :
                            role.preferred_skills[i] = s})

Growth(role) ==
    IF Len(role.demand_index) = 0 THEN 100
    ELSE role.demand_index[Len(role.demand_index)]

Candidates ==
    {r \in 1..Len(career_data) :
        /\ RangeOnScale(career_data[r])
        /\ ~OnScale(experience_level)
           \/ ~OutsideRange(career_data[r], experience_level)
        /\ Score2(career_data[r]) > 0}

Ahead(q, r) ==
    LET a == career_data[q]
        b == career_data[r]
    IN  \/ Score2(a) > Score2(b)
        \/ Score2(a) = Score2(b) /\ Growth(a) > Growth(b)
        \/ Score2(a) = Score2(b) /\ Growth(a) = Growth(b) /\ q < r

CandidateRank(r) == Cardinality({q \in Candidates : Ahead(q, r)}) + 1

C8_TopFiveByScoreAndGrowth ==
    (pc = "done" /\ "roles" \in DOMAIN response) =>
        LET out == response.roles
        IN  /\ Len(out) <= 5
            /\ Len(out) =
                  (IF Cardinality(Candidates) < 5
                   THEN Cardinality(Candidates) ELSE 5)
            /\ \A i \in 1..Len(out) : out[i].match_score2 > 0
            /\ \A r \in Candidates :
                  CandidateRank(r) <= 5 =>
                      /\ out[CandidateRank(r)].role = career_data[r].role
                      /\ out[CandidateRank(r)].match_score2 = Score2(career_data[r])
                      /\ out[CandidateRank(r)].growth = Growth(career_data[r])

C8_Witness ==
    /\ pc = "done"
    /\ "roles" \in DOMAIN response
    /\ Cardinality(Candidates) > 5
    /\ Len(response.roles) = 5
    /\ response.roles[1].role # career_data[1].role
    /\ \E i \in 1..4 :
          /\ response.roles[i].match_score2 = response.roles[i + 1].match_score2
          /\ response.roles[i].growth = response.roles[i + 1].growth
    /\ \E i \in 1..4 :
          response.roles[i].match_score2 > response.roles[i + 1].match_score2

(***************************************************************************)
(* C9: a role is left out by the experience filter exactly when the        *)
(* requested level is one of Entry, Mid, Senior, Lead and lies outside the *)
(* role's [min, max] range on that scale; a requested level that is none   *)
(* of the four leaves no role out, whatever the role's range is.           *)
(***************************************************************************)
LeftOut(r) ==
    \A i \in 1..Len(recommended_roles) :
        recommended_roles[i].role # career_data[r].role

C9_ExperienceFilter ==
    (pc = "done" /\ "roles" \in DOMAIN response) =>
        \A r \in 1..Len(career_data) :
            Score2(career_data[r]) > 0 =>
                /\ ~OnScale(experience_level) => ~LeftOut(r)
                /\ (OnScale(experience_level) /\ RangeOnScale(career_data[r])) =>
                      (LeftOut(r) <=> OutsideRange(career_data[r], experience_level))

C9_Witness ==
    /\ pc = "done"
    /\ "roles" \in DOMAIN response
    /\ experience_level = "Expert"
    /\ career_data[1].experience_level = <<"Mid", "Senior">>
    /\ career_data[2].experience_level = <<"Junior">>
    /\ ~LeftOut(1)
    /\ ~LeftOut(2)

(***************************************************************************)
(* C10: analyze_resume resolves the target name to the catalog role of     *)
(* that name ignoring case (the first one); when there is none it returns  *)
(* a not-found failure with the names of all catalog roles in catalog      *)
(* order, and no percentage, matched or missing list, or plan.             *)
(***************************************************************************)
NameMatches(r) == SameIgnoringCase(career_data[r].role, target_role)

ResultFields ==
    {"role", "match_percentage", "matched_skills", "missing_required",
     "missing_preferred", "improvement_plan"}

C10_RoleLookup ==
    (pc = "done" /\ response.status \in {200, 404}) =>
        IF \E r \in 1..Len(career_data) : NameMatches(r)
        THEN LET r == CHOOSE q \in 1..Len(career_data) :
                          NameMatches(q) /\ \A o \in 1..(q - 1) : ~NameMatches(o)
             IN  /\ response.status = 200
                 /\ response.role = career_data[r].role
                 /\ response.missing_required =
                       Without(career_data[r].required_skills, resume_skills)
        ELSE /\ response.status = 404
             /\ response.available_roles =
                   [r \in 1..Len(career_data) |-> career_data[r].role]
             /\ DOMAIN response \cap ResultFields = {}

C10_Witness ==
    /\ pc = "done"
    /\ response.status = 200
    /\ response.role # target_role
    /\ ~NameMatches(1)
    /\ \E r \in 2..Len(career_data) : NameMatches(r)

(***************************************************************************)
(* C11: after every load or reload of the catalog, whatever the stored     *)
(* file contains, the catalog in memory is not empty and every role in it  *)
(* has the seven fields: it is the stored roles that have all seven fields *)
(* in stored order, or the built-in two-role catalog when no stored role   *)
(* has them all.                                                           *)
(***************************************************************************)
SevenFields ==
    {"role", "category", "required_skills", "preferred_skills",
     "average_salary", "growth_trend", "recommended_courses"}

HasSevenFields(item) == \A f \in SevenFields : f \in DOMAIN item

\* The items stored as the role list; a file without such a list stores none.
StoredRoles(st) == IF st.kind = "career_roles" THEN st.career_roles ELSE <<>>

CompleteRoles(st) ==
    {StoredRoles(st)[i] : i \in {j \in 1..Len(StoredRoles(st)) :
                                    HasSevenFields(StoredRoles(st)[j])}}

IsBuiltInCatalog(catalog) ==
    /\ Len(catalog) = 2
    /\ catalog[1].role = DefaultSeName
    /\ catalog[2].role = DefaultDsName
    /\ catalog = create_default_career_data

\* A step that loads: a reload, or a read that found nothing loaded.
LoadStep ==
    \/ pc' = "reloaded"
    \/ pc' = "status" /\ career_data = None

C11_LoadedCatalog ==
    [][LoadStep =>
          /\ career_data' # None
          /\ Len(career_data') > 0
          /\ \A r \in 1..Len(career_data') : HasSevenFields(career_data'[r])
          /\ IF CompleteRoles(storage') = {}
             THEN IsBuiltInCatalog(career_data')
             ELSE career_data' = Within(StoredRoles(storage'), CompleteRoles(storage'))
      ]_vars

C11_Witness ==
    /\ pc = "reloaded"
    /\ storage.kind = "career_roles"
    /\ Len(storage.career_roles) = 2
    /\ ~HasSevenFields(storage.career_roles[1])
    /\ HasSevenFields(storage.career_roles[2])
    /\ career_data = <<storage.career_roles[2]>>

(***************************************************************************)
(* C12: in the resume-analysis flow, whenever a step fails internally the  *)
(* response is a structured error: a success response is produced only     *)
(* when the skill extraction and every course lookup completed without     *)
(* failure.  A failure is what the flow reports with logger.error.         *)
(***************************************************************************)
C12_FailureIsNeverSuccess ==
    (pc = "done" /\ response.status = 200) => log = {}

(***************************************************************************)
(* C13: under every interleaving of reload_career_data with concurrent     *)
(* calls of get_career_data, each call of either returns a complete        *)
(* catalog, the one in place before a reload or a freshly loaded one:      *)
(* no caller receives the unloaded value None or a partly built catalog.   *)
(***************************************************************************)
\* What the stored file st yields when it is loaded in full.
CatalogOf(st) ==
    IF CompleteRoles(st) = {} THEN create_default_career_data
    ELSE Within(StoredRoles(st), CompleteRoles(st))

C13_CallsReturnCompleteCatalog ==
    \A t \in Threads :
        threads[t].pc = "returned" =>
            /\ threads[t].data # None
            /\ \E st \in ReloadFiles : threads[t].data = CatalogOf(st)

(***************************************************************************)
(* C14: within one resume-analysis request, the vocabulary used for the    *)
(* extraction, the role record used for the scoring and the courses of     *)
(* every improvement-plan entry come from one and the same catalog         *)
(* snapshot, also when a reload happens while the request is handled.      *)
(* Stated for the requests that were handed a loaded catalog every time.   *)
(***************************************************************************)
C14_OneSnapshotPerRequest ==
    (/\ pc = "done"
     /\ response.status = 200
     /\ \A i \in 1..Len(snapshots) : snapshots[i] # None)
        => \A i, j \in 1..Len(snapshots) : snapshots[i] = snapshots[j]

====
